---- MODULE Spec2Model ----
(***************************************************************************)
(* Model of the Meural Manager server (server.js with EXIF storage and     *)
(* vision captions): the upload pipeline of POST /api/items/upload, the    *)
(* photos table it writes, the cached auth token and the helpers the       *)
(* pipeline calls.                                                         *)
(*                                                                         *)
(* JavaScript values.  A nullable value is a set with at most one element: *)
(* None is null/undefined, Some(x) a present value.  Numbers produced by a *)
(* division are pairs <<n, d>> in lowest terms; <<1, 0>> and <<-1, 0>> are *)
(* +/-Infinity and <<0, 0>> is NaN.  Strings that the code takes apart are *)
(* sequences of one-character strings.                                     *)
(***************************************************************************)
EXTENDS Integers, Sequences, FiniteSets, TLC

None == {}
Some(x) == {x}
The(m) == CHOOSE x \in m : TRUE

\* obj?.key : the value of a key, undefined when the key is absent
Get(obj, key) == IF key \in DOMAIN obj THEN obj[key] ELSE None

----------------------------------------------------------------------------
(* Bounds of the model *)

\* files in one upload request
MaxFiles == 2
\* steps of the clock in one run
MaxTicks == 5
\* ids in one bulk request
MaxIds == 2
\* local resource faults (file system, database) in one run
MaxFaults == 1

----------------------------------------------------------------------------
(* Numbers *)

Abs(n) == IF n < 0 THEN -n ELSE n
Sign(n) == IF n < 0 THEN -1 ELSE IF n > 0 THEN 1 ELSE 0

RECURSIVE Gcd(_, _)
Gcd(a, b) == IF b = 0 THEN a ELSE Gcd(b, a % b)

\* the JavaScript quotient n / d of two integers
Div(n, d) ==
    IF d = 0 THEN <<Sign(n), 0>>
    ELSE LET g == Gcd(Abs(n), Abs(d))
             s == Sign(d)
         IN  <<(s * n) \div g, (s * d) \div g>>

IsNaN(q) == q = <<0, 0>>
\* truthiness of a number: 0 and NaN are falsy
TruthyNum(q) == q[1] # 0

\* Math.round(a / b) for a >= 0, b > 0: halves round up
Round(a, b) == (2 * a + b) \div (2 * b)

----------------------------------------------------------------------------
(* Text *)

Digits == {"0", "1", "2", "3", "4", "5", "6", "7", "8", "9"}

DigitVal(c) ==
    CASE c = "0" -> 0 [] c = "1" -> 1 [] c = "2" -> 2 [] c = "3" -> 3
      [] c = "4" -> 4 [] c = "5" -> 5 [] c = "6" -> 6 [] c = "7" -> 7
      [] c = "8" -> 8 [] c = "9" -> 9

AllDigits(cs, from, to) == \A k \in from..to : cs[k] \in Digits

\* the characters of cs as one string
RECURSIVE Str(_)
Str(cs) == IF cs = <<>> THEN "" ELSE Head(cs) \o Str(Tail(cs))

\* index of the first occurrence of character c in cs, 0 when there is none
FirstIndex(cs, c) ==
    IF \E k \in 1..Len(cs) : cs[k] = c
    THEN CHOOSE k \in 1..Len(cs) : cs[k] = c /\ \A j \in 1..(k - 1) : cs[j] # c
    ELSE 0

\* dt.replace(/^(\d{4}):(\d{2}):(\d{2})/, '$1-$2-$3')
ReplaceDateColons(cs) ==
    IF /\ Len(cs) >= 10
       /\ AllDigits(cs, 1, 4) /\ cs[5] = ":"
       /\ AllDigits(cs, 6, 7) /\ cs[8] = ":"
       /\ AllDigits(cs, 9, 10)
    THEN [k \in 1..Len(cs) |-> IF k \in {5, 8} THEN "-" ELSE cs[k]]
    ELSE cs

\* s.replace(' ', 'T'): the first blank only
ReplaceFirstBlank(cs) ==
    LET p == FirstIndex(cs, " ")
    IN  IF p = 0 THEN cs ELSE [k \in 1..Len(cs) |-> IF k = p THEN "T" ELSE cs[k]]

\* "2024:09:25 14:30:00" -> "2024-09-25T14:30:00"
NormalizeDate(cs) == ReplaceFirstBlank(ReplaceDateColons(cs))

\* days of each month (February of a leap year)
DaysInMonth == <<31, 29, 31, 30, 31, 30, 31, 31, 30, 31, 30, 31>>

\* new Date(s) for the date-time form "YYYY-MM-DDTHH:MM:SS" (local time):
\* the year and the 0-based month, or None for an Invalid Date
ParseDate(cs) ==
    IF /\ Len(cs) = 19
       /\ AllDigits(cs, 1, 4) /\ cs[5] = "-"
       /\ AllDigits(cs, 6, 7) /\ cs[8] = "-"
       /\ AllDigits(cs, 9, 10) /\ cs[11] = "T"
       /\ AllDigits(cs, 12, 13) /\ cs[14] = ":"
       /\ AllDigits(cs, 15, 16) /\ cs[17] = ":"
       /\ AllDigits(cs, 18, 19)
       /\ 10 * DigitVal(cs[6]) + DigitVal(cs[7]) \in 1..12
       /\ 10 * DigitVal(cs[9]) + DigitVal(cs[10])
              \in 1..DaysInMonth[10 * DigitVal(cs[6]) + DigitVal(cs[7])]
       /\ 10 * DigitVal(cs[12]) + DigitVal(cs[13]) \in 0..23
       /\ 10 * DigitVal(cs[15]) + DigitVal(cs[16]) \in 0..59
       /\ 10 * DigitVal(cs[18]) + DigitVal(cs[19]) \in 0..59
    THEN Some([year |-> SubSeq(cs, 1, 4),
               month |-> 10 * DigitVal(cs[6]) + DigitVal(cs[7]) - 1])
    ELSE None

MonthNames ==
    <<"January", "February", "March", "April", "May", "June", "July",
      "August", "September", "October", "November", "December">>

\* date.toLocaleDateString('en-US', { month: 'long', year: 'numeric' })
MonthYear(cs) ==
    LET d == ParseDate(cs)
    IN  IF d = None THEN "Invalid Date"
        ELSE MonthNames[The(d).month + 1] \o " " \o Str(The(d).year)

----------------------------------------------------------------------------
(* Metadata Extractor *)

\* a rational tag value [numerator, denominator] divided as the code does:
\* value[0] / value[1], NaN when an operand is missing
Quotient(value) ==
    IF Len(value) < 2 THEN <<0, 0>> ELSE Div(value[1], value[2])

\* x || null for a nullable integer: 0 is falsy
OrNullNum(m) == IF m # None /\ The(m) # 0 THEN m ELSE None
\* x || null for a nullable string: "" is falsy
OrNullStr(m) == IF m # None /\ The(m) # "" THEN m ELSE None
\* a || b || null for nullable integers
FirstTruthyNum(a, b) == IF OrNullNum(a) # None THEN a ELSE OrNullNum(b)

\* the record extractExif returns when ExifReader.load throws
DegradedExif == [exif_json |-> None]

\* extractExif on the tags ExifReader.load returned
ExifFromTags(tags) ==
    [ date_taken |->
          IF tags.DateTimeOriginal # None /\ The(tags.DateTimeOriginal) # <<>>
          THEN Some(NormalizeDate(The(tags.DateTimeOriginal)))
          ELSE None,
      camera_make |-> OrNullStr(tags.Make),
      camera_model |-> OrNullStr(tags.Model),
      lens_model |-> OrNullStr(tags.LensModel),
      focal_length |->
          IF tags.FocalLength # None THEN Some(Quotient(The(tags.FocalLength)))
          ELSE None,
      focal_length_35mm |-> OrNullNum(tags.FocalLengthIn35mmFilm),
      aperture |->
          IF tags.FNumber # None THEN Some(Quotient(The(tags.FNumber)))
          ELSE None,
      shutter_speed |-> OrNullStr(tags.ExposureTime),
      iso |-> OrNullNum(tags.ISOSpeedRatings),
      exposure_compensation |->
          LET q == IF tags.ExposureBiasValue = None THEN <<0, 0>>
                   ELSE Quotient(The(tags.ExposureBiasValue))
          IN  IF TruthyNum(q) THEN Some(q) ELSE None,
      gps_latitude |->
          IF OrNullNum(tags.Latitude) # None /\ OrNullNum(tags.Longitude) # None
          THEN tags.Latitude ELSE None,
      gps_longitude |->
          IF OrNullNum(tags.Latitude) # None /\ OrNullNum(tags.Longitude) # None
          THEN tags.Longitude ELSE None,
      gps_altitude |->
          IF OrNullNum(tags.Latitude) # None /\ OrNullNum(tags.Longitude) # None
          THEN OrNullNum(tags.Altitude) ELSE None,
      width |-> FirstTruthyNum(tags.ImageWidth, tags.PixelXDimension),
      height |-> FirstTruthyNum(tags.ImageHeight, tags.PixelYDimension),
      orientation |-> OrNullNum(tags.Orientation),
      color_space |-> OrNullStr(tags.ColorSpace),
      white_balance |-> OrNullStr(tags.WhiteBalance),
      exif_json |-> Some(tags) ]

\* extractExif(buffer, filename): parsed is None when ExifReader.load throws
extractExif(parsed) ==
    IF parsed = None THEN DegradedExif ELSE ExifFromTags(The(parsed))

----------------------------------------------------------------------------
(* Image Normalizer *)

MAX_FILE_SIZE == 20 * 1024 * 1024
MAX_DIMENSION == 3000

\* the dimensions resizeIfNeeded asks sharp for, given the intrinsic ones.
\* The code rounds the double h * (3000 / w); on the dimensions this model
\* draws that is the exact quotient rounded half up.
NewDimensions(w, h) ==
    IF w > h /\ w > MAX_DIMENSION
    THEN [width |-> MAX_DIMENSION, height |-> Round(h * MAX_DIMENSION, w)]
    ELSE IF h > MAX_DIMENSION
    THEN [width |-> Round(w * MAX_DIMENSION, h), height |-> MAX_DIMENSION]
    ELSE [width |-> w, height |-> h]

\* the size test with the ceiling itself taken for too large
StrictlySmaller(length) == length < MAX_FILE_SIZE

\* the size test at the head of resizeIfNeeded
SmallEnough(length) == length <= MAX_FILE_SIZE

\* resizeIfNeeded(fileBuffer, filename).  sharp is what the sharp library
\* does with these bytes: None when metadata() or toBuffer() throws, else
\* the intrinsic dimensions and the length of the recompressed JPEG.
resizeIfNeeded(fileBuffer, sharp) ==
    IF SmallEnough(fileBuffer.length)
    THEN [buffer |-> fileBuffer, resized |-> FALSE]
    ELSE IF sharp = None
    THEN [buffer |-> fileBuffer, resized |-> FALSE,
          error |-> "Input buffer contains unsupported image format"]
    ELSE IF \/ NewDimensions(The(sharp).width, The(sharp).height).width < 1
            \/ NewDimensions(The(sharp).width, The(sharp).height).height < 1
    THEN \* sharp's resize() rejects an edge that is not a positive integer
         [buffer |-> fileBuffer, resized |-> FALSE,
          error |-> "Expected positive integer for height but received 0"]
    ELSE LET out == [bytes |-> <<"jpeg", fileBuffer.bytes>>,
                     length |-> The(sharp).jpegLength]
         IN  [buffer |-> out, resized |-> TRUE,
              originalSize |-> fileBuffer.length,
              newSize |-> out.length,
              dimensions |-> NewDimensions(The(sharp).width, The(sharp).height)]

----------------------------------------------------------------------------
(* Description Composer *)

\* a getSeason that names no season for a date without a month
getSeasonOfValidDate(dateString) ==
    IF dateString = None \/ The(dateString) = <<>> THEN None
    ELSE LET d == ParseDate(The(dateString))
         IN  IF d = None THEN None
             ELSE IF The(d).month >= 2 /\ The(d).month <= 4 THEN Some("Spring")
             ELSE IF The(d).month >= 5 /\ The(d).month <= 7 THEN Some("Summer")
             ELSE IF The(d).month >= 8 /\ The(d).month <= 10 THEN Some("Fall")
             ELSE Some("Winter")

\* getSeason(dateString)
getSeason(dateString) ==
    IF dateString = None \/ The(dateString) = <<>> THEN None
    ELSE LET d == ParseDate(The(dateString))
         IN  IF d # None /\ The(d).month >= 2 /\ The(d).month <= 4 THEN Some("Spring")
             ELSE IF d # None /\ The(d).month >= 5 /\ The(d).month <= 7 THEN Some("Summer")
             ELSE IF d # None /\ The(d).month >= 8 /\ The(d).month <= 10 THEN Some("Fall")
             ELSE Some("Winter")

\* parts.join(sep)
RECURSIVE Join(_, _)
Join(parts, sep) ==
    IF parts = <<>> THEN ""
    ELSE IF Len(parts) = 1 THEN parts[1]
    ELSE parts[1] \o sep \o Join(Tail(parts), sep)

Separator == " · "

\* a composer that puts the caption first
generateCaptionFirst(exif, loc, caption) ==
    LET city == IF loc = None THEN None ELSE OrNullStr(The(loc).city)
        season == getSeason(Get(exif, "date_taken"))
        p1 == IF OrNullStr(caption) # None THEN <<The(caption)>> ELSE <<>>
        p2 == IF city # None THEN Append(p1, The(city)) ELSE p1
        p3 == IF season # None THEN Append(p2, The(season)) ELSE p2
    IN  OrNullStr(Some(Join(p3, Separator)))

\* generateSmartDescription(exifData, location, visionCaption)
generateSmartDescription(exif, loc, caption) ==
    LET city == IF loc = None THEN None ELSE OrNullStr(The(loc).city)
        season == getSeason(Get(exif, "date_taken"))
        p1 == IF city # None THEN <<The(city)>> ELSE <<>>
        p2 == IF season # None THEN Append(p1, The(season)) ELSE p1
        p3 == IF OrNullStr(caption) # None THEN Append(p2, The(caption)) ELSE p2
        date == Get(exif, "date_taken")
        p4 == IF p3 = <<>> /\ date # None /\ The(date) # <<>>
              THEN <<MonthYear(The(date))>> ELSE p3
    IN  OrNullStr(Some(Join(p4, Separator)))

----------------------------------------------------------------------------
(* Geocoder *)

\* reverseGeocode(lat, lon).  reply is None when fetch or response.json()
\* throws or the body is the JSON null (reading its address throws): the
\* catch block returns null.  Else reply is the parsed body, a record
\* [display_name, address] whose address is None or a record of nullable
\* strings.
reverseGeocode(reply) ==
    IF reply = None THEN None
    ELSE LET data == The(reply)
             addr(k) == IF data.address = None THEN None
                        ELSE OrNullStr(Get(The(data.address), k))
             city == IF addr("city") # None THEN addr("city")
                     ELSE IF addr("town") # None THEN addr("town")
                     ELSE addr("village")
             p1 == IF city # None THEN <<The(city)>> ELSE <<>>
             p2 == IF addr("state") # None THEN Append(p1, The(addr("state"))) ELSE p1
             p3 == IF addr("country") # None THEN Append(p2, The(addr("country"))) ELSE p2
         IN  Some([display_name |-> IF Join(p3, ", ") # "" THEN Some(Join(p3, ", "))
                                    ELSE data.display_name,
                   city |-> city,
                   state |-> addr("state"),
                   country |-> addr("country"),
                   country_code |-> addr("country_code")])

----------------------------------------------------------------------------
(* Metadata Store: the photos table, a function from meural_id to its row *)

\* the columns the INSERT of savePhotoExif takes from exifData
ExifColumns ==
    {"date_taken", "camera_make", "camera_model", "lens_model", "focal_length",
     "focal_length_35mm", "aperture", "shutter_speed", "iso",
     "exposure_compensation", "gps_latitude", "gps_longitude", "gps_altitude",
     "width", "height", "orientation", "color_space", "white_balance",
     "exif_json"}

\* all columns of the table
Columns ==
    {"id", "meural_id", "original_filename", "uploaded_at", "location_name"}
        \cup ExifColumns

\* binding a JavaScript value to a column: undefined binds as NULL, and
\* SQLite stores a NaN as NULL
Bind(col, v) ==
    IF col \in {"focal_length", "aperture", "exposure_compensation"}
       /\ v # None /\ IsNaN(The(v))
    THEN None ELSE v

\* the row INSERT OR REPLACE builds: the bound columns, the column defaults
\* for the others
NewRow(rowid, meuralId, filename, exifData, timestamp) ==
    [c \in Columns |->
        IF c = "id" THEN Some(rowid)
        ELSE IF c = "meural_id" THEN Some(meuralId)
        ELSE IF c = "original_filename" THEN Some(filename)
        ELSE IF c = "uploaded_at" THEN Some(timestamp)
        ELSE IF c \in ExifColumns THEN Bind(c, Get(exifData, c))
        ELSE None]

\* an upsert that keeps the old value of a column the new row leaves NULL
InsertOrMerge(table, meuralId, row) ==
    [k \in DOMAIN table \cup {meuralId} |->
        IF k # meuralId THEN table[k]
        ELSE IF meuralId \notin DOMAIN table THEN row
        ELSE [c \in Columns |-> IF row[c] = None THEN table[k][c] ELSE row[c]]]

\* the table after INSERT OR REPLACE: the row that holds the same
\* meural_id (UNIQUE) is deleted and the new row inserted
InsertOrReplace(table, meuralId, row) ==
    [k \in DOMAIN table \cup {meuralId} |-> IF k = meuralId THEN row ELSE table[k]]

----------------------------------------------------------------------------
(* The inputs of the model: files a client uploads and what the libraries  *)
(* and remote services answer.                                             *)

TagsGps ==
    [ DateTimeOriginal |-> Some(<<"2", "0", "2", "4", ":", "0", "7", ":", "1", "5", " ",
                                  "1", "4", ":", "3", "0", ":", "0", "0">>),
      Latitude |-> Some(48), Longitude |-> Some(2), Altitude |-> Some(35),
      FNumber |-> Some(<<28, 10>>), FocalLength |-> Some(<<50, 1>>),
      FocalLengthIn35mmFilm |-> Some(75),
      Make |-> Some("FUJIFILM"), Model |-> Some("X-T5"), LensModel |-> Some("XF35mm"),
      ExposureTime |-> Some("1/250"), ISOSpeedRatings |-> Some(100),
      ExposureBiasValue |-> Some(<<1, 3>>),
      ImageWidth |-> Some(4000), PixelXDimension |-> Some(4000),
      ImageHeight |-> Some(3000), PixelYDimension |-> Some(3000),
      Orientation |-> Some(1), ColorSpace |-> Some("sRGB"),
      WhiteBalance |-> Some("Auto white balance") ]

TagsPlain ==
    [ DateTimeOriginal |-> Some(<<"2", "0", "2", "3", ":", "0", "1", ":", "0", "2", " ",
                                  "0", "9", ":", "0", "5", ":", "0", "0">>),
      Latitude |-> None, Longitude |-> None, Altitude |-> None,
      FNumber |-> Some(<<4, 1>>), FocalLength |-> None,
      FocalLengthIn35mmFilm |-> None,
      Make |-> Some("Canon"), Model |-> Some("EOS R5"), LensModel |-> None,
      ExposureTime |-> None, ISOSpeedRatings |-> Some(400),
      ExposureBiasValue |-> None,
      ImageWidth |-> None, PixelXDimension |-> Some(6000),
      ImageHeight |-> None, PixelYDimension |-> Some(4000),
      Orientation |-> None, ColorSpace |-> None, WhiteBalance |-> None ]

\* the files a client may upload: their bytes, what ExifReader.load makes
\* of them (None: it throws) and what sharp makes of them (None: it throws)
GpsPhoto ==
    [ bytes |-> "gps.jpg", length |-> MAX_FILE_SIZE, mimetype |-> "image/jpeg",
      tags |-> Some(TagsGps),
      sharp |-> Some([width |-> 4000, height |-> 3000, jpegLength |-> 9000000]) ]
BigPhoto ==
    [ bytes |-> "big.png", length |-> MAX_FILE_SIZE + 1, mimetype |-> "image/png",
      tags |-> Some(TagsPlain),
      sharp |-> Some([width |-> 6000, height |-> 4000, jpegLength |-> 5000000]) ]
BadFile ==
    [ bytes |-> "bad.bin", length |-> MAX_FILE_SIZE + 1, mimetype |-> "image/jpeg",
      tags |-> None, sharp |-> None ]

Photos == {GpsPhoto, BigPhoto, BadFile}

\* what the vendor may answer to POST /items: the status and the body
NonJson == [json |-> FALSE]
Body(id) == [json |-> TRUE, id |-> id]
PostReplies ==
    { [ok |-> TRUE, body |-> Body(Some(1))], [ok |-> TRUE, body |-> Body(Some(2))],
      [ok |-> TRUE, body |-> Body(None)], [ok |-> FALSE, body |-> Body(None)],
      [ok |-> FALSE, body |-> Body(Some(1))], [ok |-> TRUE, body |-> NonJson] }

\* what Nominatim may answer
ParisReply ==
    [ display_name |-> Some("Tour Eiffel, Paris, France"),
      address |-> Some([city |-> Some("Paris"), state |-> Some("Ile-de-France"),
                        country |-> Some("France"), country_code |-> Some("fr")]) ]
GeoReplies == {None, Some(ParisReply)}

\* what the vision model may answer (None: the call throws)
VisionReplies == {None, Some("Golden light on rooftops")}

\* what Cognito may do with an InitiateAuth request
ProviderReplies == {"token", "throw", "noAccessToken"}

----------------------------------------------------------------------------
(* State *)

VARIABLES
    credsSet,          \* MEURAL_USERNAME and a password are configured
    anthropic,         \* ANTHROPIC_API_KEY is configured
    now,               \* Date.now()
    authToken,         \* the cached token (a token is named by its issue time)
    tokenExpiry,       \* the cached expiry
    photos,            \* the photos table
    rowSeq,            \* the AUTOINCREMENT sequence of the table
    staged,            \* the staging files on disk, by their index in req.files
    pc,                \* where the upload handler is
    nfiles,            \* req.files.length
    i,                 \* index in req.files of the file of the current iteration
    token,             \* the handler's token
    results,           \* the handler's results
    status,            \* the HTTP status the handler answered with
    local,             \* the variables of the current iteration of the loop
    issued,            \* history: the ids the vendor created items under
    reads,             \* history: the files readFileSync was called on
    posts,             \* history: the files POSTed to the vendor
    cur,               \* history: what happened to the last file taken up
    faults,            \* history: local resource faults so far
    call,              \* a helper called on its own: its name and arguments
    returned,          \* what that call returned, None while it has not
    bulkBody,          \* req.body of a bulk-delete or bulk-analyze request
    bulkPc,            \* where the handler of that request is
    bulkAt,            \* index in ids of the id of the current iteration
    bulkResults,       \* the handler's results
    bulkStatus,        \* the HTTP status it answered with, and the error if any
    bulkLocal,         \* the variables of the current iteration
    wire,              \* history: the remote calls and the delays, in order
    suspended          \* an upload request waiting at an await while another runs

config == <<credsSet, anthropic>>
auth == <<authToken, tokenExpiry>>
store == <<photos, rowSeq>>
request == <<pc, nfiles, i, token, results, status>>
history == <<issued, reads, posts, cur, faults>>
helper == <<call, returned>>
bulk == <<bulkBody, bulkPc, bulkAt, bulkResults, bulkStatus, bulkLocal, wire>>
others == <<suspended>>
vars == <<config, now, auth, store, staged, request, local, history, helper, bulk, others>>

TOKEN_TTL == 3600000

\* the variables of an iteration before anything is assigned to them
NoLocals ==
    [ file |-> None, fileBuffer |-> None, exifData |-> None, resizeResult |-> None,
      form |-> None, response |-> None, data |-> None, location |-> None,
      visionCaption |-> None, smartDescription |-> None ]

NoHistory ==
    [ file |-> 0, base |-> 0, original |-> None, degraded |-> FALSE,
      uploaded |-> None, place |-> None, put |-> "none", desc |-> None,
      readFault |-> FALSE, storeFault |-> FALSE, unlinkFault |-> FALSE ]

\* exif-database.sqlite outlives the process (CREATE TABLE IF NOT EXISTS):
\* the table holds the row of a photo uploaded by an earlier run, which the
\* vendor keeps under id 2
EarlierRow ==
    NewRow(1, 2, 0, [extractExif(Some(TagsGps)) EXCEPT !.camera_model = Some("X100V")],
           0 - TOKEN_TTL)
EarlierTable == InsertOrReplace(<<>>, 2, EarlierRow)

\* the variables of an iteration of bulk-analyze before anything is
\* assigned to them
NoBulkLocals ==
    [photo |-> None, visionCaption |-> None, exifRecord |-> None, location |-> None,
     smartDescription |-> None]

\* no helper is called on its own
NoCall == [fn |-> "none"]

\* the server after start-up, before any request
Started ==
    /\ now = 0
    /\ authToken = None /\ tokenExpiry = None
    /\ photos = EarlierTable
    /\ rowSeq = 1
    /\ staged = {}
    /\ pc = "idle" /\ nfiles = 0 /\ i = 0 /\ token = None
    /\ results = <<>> /\ status = None
    /\ local = NoLocals
    /\ issued = DOMAIN photos /\ reads = {} /\ posts = {}
    /\ cur = NoHistory /\ faults = 0
    /\ bulkBody = None /\ bulkPc = "idle" /\ bulkAt = 0
    /\ bulkResults = <<>> /\ bulkStatus = None
    /\ bulkLocal = NoBulkLocals /\ wire = <<>>
    /\ suspended = None

Init ==
    /\ credsSet \in BOOLEAN
    /\ anthropic \in BOOLEAN
    /\ call = NoCall /\ returned = None
    /\ Started

----------------------------------------------------------------------------
(* Auth token *)

\* a test that takes a token for valid at the instant it expires
TokenFreshAtExpiry(tok, expiry, time) ==
    tok # None /\ expiry # None /\ The(expiry) # 0 /\ time <= The(expiry)

\* the test at the head of getToken
TokenFresh(tok, expiry, time) ==
    tok # None /\ expiry # None /\ The(expiry) # 0 /\ time < The(expiry)

\* getToken(): what it returns or throws and the cache it leaves, given
\* what the identity provider does when asked
getToken(provider) ==
    IF TokenFresh(authToken, tokenExpiry, now)
    THEN [threw |-> FALSE, value |-> authToken, asked |-> FALSE,
          authToken |-> authToken, tokenExpiry |-> tokenExpiry]
    ELSE IF ~credsSet
    THEN [threw |-> TRUE, value |-> None, asked |-> FALSE,
          message |-> "MEURAL_USERNAME and MEURAL_PASSWORD must be set in .env",
          authToken |-> authToken, tokenExpiry |-> tokenExpiry]
    ELSE IF provider = "throw"
    THEN [threw |-> TRUE, value |-> None, asked |-> TRUE,
          message |-> "NotAuthorizedException",
          authToken |-> authToken, tokenExpiry |-> tokenExpiry]
    ELSE IF provider = "noAccessToken"
    THEN [threw |-> TRUE, value |-> None, asked |-> TRUE,
          message |-> "Authentication failed: {}",
          authToken |-> authToken, tokenExpiry |-> tokenExpiry]
    ELSE [threw |-> FALSE, value |-> Some(now), asked |-> TRUE,
          authToken |-> Some(now), tokenExpiry |-> Some(now + TOKEN_TTL)]

----------------------------------------------------------------------------
(* POST /api/items/upload *)

NetworkError == [threw |-> TRUE]

\* (bytes / 1024 / 1024).toFixed(1), in tenths of a megabyte
ToFixed1MB(bytes) == Round(bytes * 10, 1024 * 1024)

\* the guard with response.ok forgotten
UploadSucceededAnyStatus(resp, dat) == dat.id # None

\* the test that guards the enrichment branch: response.ok && data.data?.id
UploadSucceeded(resp, dat) == resp.ok /\ dat.id # None

\* exifData.gps_latitude && exifData.gps_longitude
HasGps(ex) ==
    /\ OrNullNum(Get(ex, "gps_latitude")) # None
    /\ OrNullNum(Get(ex, "gps_longitude")) # None

\* the entry of a try block that counts a file without metadata as failed
ResultEntryNeedingExif(f, rr, resp, dat, ex, loc, cap, desc) ==
    [ filename |-> f.originalname,
      success |-> resp.ok /\ Get(ex, "exif_json") # None,
      meural_id |-> IF resp.ok THEN dat.id ELSE None,
      error |-> IF resp.ok /\ Get(ex, "exif_json") # None THEN None ELSE Some(dat) ]

\* the entry pushed at the end of the try block
ResultEntry(f, rr, resp, dat, ex, loc, cap, desc) ==
    [ filename |-> f.originalname,
      success |-> resp.ok,
      meural_id |-> IF resp.ok THEN dat.id ELSE None,
      data |-> IF resp.ok THEN Some(dat) ELSE None,
      resized |-> IF rr.resized
                  THEN Some([from |-> ToFixed1MB(rr.originalSize),
                             to |-> ToFixed1MB(rr.newSize),
                             dimensions |-> rr.dimensions])
                  ELSE None,
      exif |-> IF resp.ok
               THEN Some([date_taken |-> Get(ex, "date_taken"),
                          camera |-> Get(ex, "camera_model"),
                          lens |-> Get(ex, "lens_model"),
                          aperture |-> Get(ex, "aperture"),
                          shutter |-> Get(ex, "shutter_speed"),
                          iso |-> Get(ex, "iso"),
                          gps |-> OrNullNum(Get(ex, "gps_latitude")) # None,
                          location |->
                              IF loc = None THEN None
                              ELSE IF OrNullStr(The(loc).city) # None THEN The(loc).city
                              ELSE OrNullStr(The(loc).display_name),
                          season |-> getSeason(Get(ex, "date_taken"))])
               ELSE None,
      vision_caption |-> cap,
      smart_description |-> desc,
      error |-> IF resp.ok THEN None ELSE Some(dat) ]

\* the entry pushed by the catch block
CatchEntry(f, message) ==
    [filename |-> f.originalname, success |-> FALSE, error |-> Some(message)]

\* the end of an iteration with the results and the staging files it
\* leaves: the next file, or res.json({ results })
EndIteration(newResults, newStaged) ==
    /\ results' = newResults
    /\ staged' = newStaged
    /\ local' = NoLocals
    /\ i' = i + 1
    /\ IF i + 1 > nfiles
       THEN pc' = "done" /\ status' = Some(200)
       ELSE pc' = "read" /\ status' = status

\* a catch block that gives up on the request
CatchAndAbort(pushed, f, message, unlinkOk) ==
    /\ results' = Append(pushed, CatchEntry(f, message))
    /\ staged' = IF unlinkOk THEN staged \ {f.path} ELSE staged
    /\ local' = NoLocals
    /\ i' = i
    /\ pc' = "done" /\ status' = Some(500)

\* the catch block of the iteration, entered with the results pushed so far:
\* push a failure entry, then unlink the staging file, swallowing a failure
\* of that
Catch(pushed, f, message, unlinkOk) ==
    EndIteration(Append(pushed, CatchEntry(f, message)),
                 IF unlinkOk THEN staged \ {f.path} ELSE staged)

\* results.push(...) and fs.unlinkSync(file.path) at the end of the try
\* block; an unlinkSync that throws is caught by the catch block, where the
\* second unlinkSync of the same path fails as the first did
PushAndUnlink(f, entry, unlinkOk) ==
    IF unlinkOk
    THEN EndIteration(Append(results, entry), staged \ {f.path})
    ELSE Catch(Append(results, entry), f, "EPERM: operation not permitted, unlink",
               FALSE)

\* one more fault for each of the operations that fails
Faulty(oks) == faults + Cardinality({k \in DOMAIN oks : ~oks[k]})

\* savePhotoExif(meuralId, filename, exifData)
savePhotoExif(meuralId, filename, ex) ==
    /\ photos' = InsertOrReplace(photos, meuralId,
                                 NewRow(rowSeq + 1, meuralId, filename, ex, now))
    /\ rowSeq' = rowSeq + 1

\* the end of the enrichment branch and of the try block: savePhotoExif,
\* results.push, unlinkSync.  storeOk: the INSERT does not throw.
SaveAndPush(cap, desc, put, storeOk, unlinkOk) ==
    LET f == The(local.file)
        ex == The(local.exifData)
    IN  /\ Faulty(<<storeOk, unlinkOk>>) <= MaxFaults
        /\ faults' = Faulty(<<storeOk, unlinkOk>>)
        /\ cur' = [cur EXCEPT !.put = put,
                              !.desc = IF put = "none" THEN None ELSE desc,
                              !.storeFault = ~storeOk, !.unlinkFault = ~unlinkOk]
        /\ IF storeOk
           THEN /\ savePhotoExif(The(The(local.data).id), f.originalname, ex)
                /\ PushAndUnlink(f, ResultEntry(f, The(local.resizeResult),
                                                The(local.response), The(local.data),
                                                ex, local.location, cap, desc),
                                 unlinkOk)
           ELSE /\ UNCHANGED store
                /\ Catch(results, f, "SQLITE_ERROR", unlinkOk)

\* multer has staged the files of the request; the handler is called
UploadRequest(n) ==
    /\ pc = "idle"
    /\ pc' = "start"
    /\ nfiles' = n
    /\ staged' = 1..n
    /\ UNCHANGED <<others, bulk, helper, config, now, auth, store, i, token, results, status, local, history>>

\* const token = await getToken(); const results = []
HandlerStart(provider) ==
    /\ pc = "start"
    /\ LET t == getToken(provider)
       IN  /\ authToken' = t.authToken
           /\ tokenExpiry' = t.tokenExpiry
           /\ IF t.threw
              THEN /\ pc' = "done" /\ status' = Some(500)
                   /\ UNCHANGED <<i, token, results>>
              ELSE /\ token' = t.value
                   /\ results' = <<>>
                   /\ i' = 1
                   /\ IF nfiles = 0
                      THEN pc' = "done" /\ status' = Some(200)
                      ELSE pc' = "read" /\ UNCHANGED status
    /\ UNCHANGED <<others, bulk, helper, config, now, store, staged, nfiles, local, history>>

\* fs.readFileSync(file.path) and extractExif(fileBuffer, file.originalname)
ReadFile(photo, readOk, unlinkOk) ==
    /\ pc = "read"
    /\ Faulty(<<readOk, readOk \/ unlinkOk>>) <= MaxFaults
    /\ faults' = Faulty(<<readOk, readOk \/ unlinkOk>>)
    /\ reads' = reads \cup {i}
    /\ LET f == [path |-> i, originalname |-> i, mimetype |-> photo.mimetype]
           buffer == [bytes |-> photo.bytes, length |-> photo.length]
       IN  IF readOk
           THEN /\ local' = [NoLocals EXCEPT !.file = Some(f),
                                             !.fileBuffer = Some(buffer),
                                             !.exifData = Some(extractExif(photo.tags))]
                /\ cur' = [NoHistory EXCEPT !.file = i, !.base = Len(results),
                                            !.original = Some(buffer),
                                            !.degraded = (photo.tags = None)]
                /\ pc' = "resize"
                /\ UNCHANGED <<staged, i, results, status>>
           ELSE /\ cur' = [NoHistory EXCEPT !.file = i, !.base = Len(results),
                                            !.readFault = TRUE,
                                            !.unlinkFault = ~unlinkOk]
                /\ Catch(results, f, "EACCES: permission denied, open", unlinkOk)
    /\ UNCHANGED <<others, bulk, helper, config, now, auth, store, nfiles, token, issued, posts>>

\* the bytes of a buffer, as the libraries see them
PhotoOf(buffer) == CHOOSE p \in Photos : p.bytes = buffer.bytes

\* await resizeIfNeeded(...); the form is built and the POST sent
ResizeAndPost ==
    /\ pc = "resize"
    /\ LET rr == resizeIfNeeded(The(local.fileBuffer),
                                PhotoOf(The(local.fileBuffer)).sharp)
       IN  local' = [local EXCEPT
                        !.resizeResult = Some(rr),
                        !.fileBuffer = Some(rr.buffer),
                        !.form = Some([image |-> rr.buffer,
                                       type |-> IF rr.resized THEN "image/jpeg"
                                                ELSE The(local.file).mimetype,
                                       name |-> The(local.file).originalname,
                                       token |-> token])]
    /\ posts' = posts \cup {i}
    /\ pc' = "upload"
    /\ UNCHANGED <<others, bulk, helper, config, now, auth, store, staged, nfiles, i, token, results, status,
                   issued, reads, cur, faults>>

\* the vendor's answer to the POST, response.json(), and the code up to the
\* next await
UploadReply(reply, unlinkOk) ==
    /\ pc = "upload"
    /\ IF "threw" \in DOMAIN reply
       THEN /\ Faulty(<<unlinkOk>>) <= MaxFaults
            /\ faults' = Faulty(<<unlinkOk>>)
            /\ cur' = [cur EXCEPT !.unlinkFault = ~unlinkOk]
            /\ Catch(results, The(local.file), "fetch failed", unlinkOk)
            /\ UNCHANGED issued
       ELSE IF ~reply.body.json
       THEN /\ Faulty(<<unlinkOk>>) <= MaxFaults
            /\ faults' = Faulty(<<unlinkOk>>)
            /\ cur' = [cur EXCEPT !.unlinkFault = ~unlinkOk]
            /\ Catch(results, The(local.file),
                     "Unexpected token < in JSON at position 0", unlinkOk)
            /\ UNCHANGED issued
       ELSE IF UploadSucceeded([ok |-> reply.ok], reply.body)
       THEN /\ local' = [local EXCEPT !.response = Some([ok |-> reply.ok]),
                                      !.data = Some(reply.body)]
            /\ issued' = IF reply.ok THEN issued \cup reply.body.id ELSE issued
            /\ cur' = [cur EXCEPT !.uploaded = IF reply.ok THEN reply.body.id ELSE None]
            /\ pc' = IF HasGps(The(local.exifData)) THEN "geocode" ELSE "vision"
            /\ UNCHANGED <<staged, i, results, status, faults>>
       ELSE /\ Faulty(<<unlinkOk>>) <= MaxFaults
            /\ faults' = Faulty(<<unlinkOk>>)
            /\ issued' = IF reply.ok THEN issued \cup reply.body.id ELSE issued
            /\ cur' = [cur EXCEPT !.unlinkFault = ~unlinkOk,
                                  !.uploaded = IF reply.ok THEN reply.body.id ELSE None]
            /\ PushAndUnlink(The(local.file),
                             ResultEntry(The(local.file), The(local.resizeResult),
                                         [ok |-> reply.ok], reply.body,
                                         The(local.exifData), None, None, None),
                             unlinkOk)
    /\ UNCHANGED <<others, bulk, helper, config, now, auth, store, nfiles, token, reads, posts>>

\* location = await reverseGeocode(...); exifData.location_name = ...
Geocode(reply) ==
    /\ pc = "geocode"
    /\ LET loc == reverseGeocode(reply)
           ex == The(local.exifData)
       IN  /\ local' = [local EXCEPT
                           !.location = loc,
                           !.exifData =
                               IF loc = None THEN @
                               ELSE Some([c \in DOMAIN ex \cup {"location_name"} |->
                                             IF c = "location_name"
                                             THEN The(loc).display_name ELSE ex[c]])]
           /\ cur' = [cur EXCEPT !.place = IF loc = None THEN None
                                           ELSE The(loc).display_name]
    /\ pc' = "vision"
    /\ UNCHANGED <<others, bulk, helper, config, now, auth, store, staged, nfiles, i, token, results, status,
                   issued, reads, posts, faults>>

\* analyzeImageWithVision(imageBuffer, mimeType)
analyzeImageWithVision(reply) == IF ~anthropic THEN None ELSE reply

\* visionCaption = await analyzeImageWithVision(fileBuffer, file.mimetype)
Vision(reply) ==
    /\ pc = "vision"
    /\ local' = [local EXCEPT !.visionCaption = analyzeImageWithVision(reply)]
    /\ pc' = "compose"
    /\ UNCHANGED <<others, bulk, helper, config, now, auth, store, staged, nfiles, i, token, results, status,
                   history>>

\* the PUT sent whatever the composer returned
ApplyAlways(desc) == TRUE

\* the test that guards the PUT of the description: if (smartDescription)
ShouldApply(desc) == OrNullStr(desc) # None

\* smartDescription = await generateSmartDescription(...), and the code up
\* to the next await
Compose(storeOk, unlinkOk) ==
    /\ pc = "compose"
    /\ LET desc == generateSmartDescription(The(local.exifData), local.location,
                                            local.visionCaption)
       IN  IF ShouldApply(desc)
           THEN /\ local' = [local EXCEPT !.smartDescription = desc]
                /\ pc' = "apply"
                /\ UNCHANGED <<store, staged, i, results, status, cur, faults>>
           ELSE SaveAndPush(local.visionCaption, desc, "none", storeOk, unlinkOk)
    /\ UNCHANGED <<others, bulk, helper, config, now, auth, nfiles, token, issued, reads, posts>>

\* await meuralRequest('PUT', `/items/${id}`, ...) in its try block, and the
\* rest of the iteration.  The PUT fails when getToken, fetch or res.json()
\* throws.
ApplyDescription(provider, net, storeOk, unlinkOk) ==
    /\ pc = "apply"
    /\ LET t == getToken(provider)
       IN  /\ authToken' = t.authToken
           /\ tokenExpiry' = t.tokenExpiry
           /\ SaveAndPush(local.visionCaption, local.smartDescription,
                          IF t.threw \/ net = "throw" THEN "failed" ELSE "sent",
                          storeOk, unlinkOk)
    /\ UNCHANGED <<others, bulk, helper, config, now, nfiles, token, issued, reads, posts>>

Next ==
    \/ \E n \in 0..MaxFiles : UploadRequest(n)
    \/ \E provider \in ProviderReplies : HandlerStart(provider)
    \/ \E photo \in Photos, readOk, unlinkOk \in BOOLEAN : ReadFile(photo, readOk, unlinkOk)
    \/ ResizeAndPost
    \/ \E reply \in PostReplies \cup {NetworkError}, unlinkOk \in BOOLEAN :
           UploadReply(reply, unlinkOk)
    \/ \E reply \in GeoReplies : Geocode(reply)
    \/ \E reply \in VisionReplies : Vision(reply)
    \/ \E storeOk, unlinkOk \in BOOLEAN : Compose(storeOk, unlinkOk)
    \/ \E provider \in ProviderReplies, net \in {"ok", "throw"},
          storeOk, unlinkOk \in BOOLEAN :
           ApplyDescription(provider, net, storeOk, unlinkOk)

Spec == Init /\ [][Next]_vars

----------------------------------------------------------------------------
(* The helpers called on their own, each on arguments drawn from a menu *)

\* intrinsic edges of an image, in pixels
Edges == {1, 2, 3, 1500, 2999, 3000, 3001, 4000, 4500, 6000, 6001, 9000, 20000}

ResizeCalls == {[fn |-> "resizeIfNeeded", width |-> w, height |-> h] : w, h \in Edges}

\* a capture timestamp as extractExif stores it, of the month written mm
Stamp(mm) ==
    <<"2", "0", "2", "3", "-">> \o mm \o
    <<"-", "1", "5", "T", "0", "9", ":", "0", "5", ":", "0", "0">>

\* the months, and "00" of the unset timestamp "0000:00:00 00:00:00"
MonthDigits ==
    { <<"0", "0">>, <<"0", "1">>, <<"0", "2">>, <<"0", "3">>, <<"0", "4">>,
      <<"0", "5">>, <<"0", "6">>, <<"0", "7">>, <<"0", "8">>, <<"0", "9">>,
      <<"1", "0">>, <<"1", "1">>, <<"1", "2">> }

\* the records the composer is given: a row or an extracted record with a
\* timestamp or none, the record of a failed extraction, and {}
ComposerRecords ==
    {[date_taken |-> Some(Stamp(mm))] : mm \in MonthDigits}
        \cup {[date_taken |-> None], DegradedExif, <<>>}

\* the location descriptors: none, one without a city, one with a city
ComposerLocations ==
    { None,
      Some([display_name |-> Some("France"), city |-> None, state |-> None,
            country |-> Some("France"), country_code |-> Some("fr")]),
      reverseGeocode(Some(ParisReply)) }

ComposerCaptions == {None, Some(""), Some("Golden light on rooftops")}

ComposeCalls ==
    { [fn |-> "generateSmartDescription", exifData |-> e, location |-> l,
       visionCaption |-> c] :
          e \in ComposerRecords, l \in ComposerLocations, c \in ComposerCaptions }

\* what Nominatim may answer: nothing usable (None), an error object
\* without address, and results with and without a city, town or village
GeocoderReplies ==
    { None,
      Some([display_name |-> None, address |-> None]),
      Some([display_name |-> Some("North Atlantic Ocean"), address |-> None]),
      Some([display_name |-> Some("North Atlantic Ocean"), address |-> Some(<<>>)]),
      Some(ParisReply),
      Some([display_name |-> Some("Giverny, Eure, France"),
            address |-> Some([town |-> Some("Vernon"), village |-> Some("Giverny"),
                              country |-> Some("France")])]),
      Some([display_name |-> Some("Giverny, Eure, France"),
            address |-> Some([city |-> Some(""), village |-> Some("Giverny"),
                              state |-> Some("Normandie")])]),
      Some([display_name |-> Some("Lyon, France"),
            address |-> Some([city |-> Some("Lyon"), town |-> Some("Villeurbanne"),
                              village |-> Some("Cusset"), country_code |-> Some("fr")])]),
      Some([display_name |-> Some("France"),
            address |-> Some([country |-> Some("France"),
                              country_code |-> Some("fr")])]) }

GeocodeCalls == {[fn |-> "reverseGeocode", reply |-> r] : r \in GeocoderReplies}

\* rational tag values [numerator, denominator]: none, proper ones, a zero
\* numerator, a zero denominator, 0/0 and a value without denominator
Rationals ==
    {None, Some(<<28, 10>>), Some(<<0, 3>>), Some(<<-2, 3>>), Some(<<28, 0>>),
     Some(<<0, 0>>), Some(<<28>>)}

\* GPS tag values: none, zero, another number
Coordinates == {None, Some(0), Some(48)}

\* the tags of the images handed to extractExif: every combination of the
\* rational tags, and every combination of the GPS tags
ExifTags ==
    {[TagsPlain EXCEPT !.FNumber = a, !.FocalLength = f, !.ExposureBiasValue = e] :
         a, f, e \in Rationals}
    \cup
    {[TagsGps EXCEPT !.Latitude = lat, !.Longitude = lon, !.Altitude = alt] :
         lat, lon, alt \in Coordinates}

\* parsed is None for bytes on which ExifReader.load throws
ExifCalls == {[fn |-> "extractExif", parsed |-> p] : p \in {None} \cup {Some(t) : t \in ExifTags}}

HelperCalls == ResizeCalls \cup ComposeCalls \cup GeocodeCalls \cup ExifCalls

\* the dimension computation in the try block of resizeIfNeeded, on the
\* width and height sharp's metadata() gave for an oversized buffer
ComputeDimensions ==
    /\ call.fn = "resizeIfNeeded" /\ returned = None
    /\ returned' = Some(NewDimensions(call.width, call.height))
    /\ UNCHANGED <<others, bulk, call, config, now, auth, store, staged, request, local, history>>

\* generateSmartDescription(exifData, location, visionCaption)
ComposeDescription ==
    /\ call.fn = "generateSmartDescription" /\ returned = None
    /\ returned' = Some(generateSmartDescription(call.exifData, call.location,
                                                  call.visionCaption))
    /\ UNCHANGED <<others, bulk, call, config, now, auth, store, staged, request, local, history>>

\* reverseGeocode(lat, lon) with the answer of Nominatim
LookUp ==
    /\ call.fn = "reverseGeocode" /\ returned = None
    /\ returned' = Some(reverseGeocode(call.reply))
    /\ UNCHANGED <<others, bulk, call, config, now, auth, store, staged, request, local, history>>

\* extractExif(buffer, filename)
Extract ==
    /\ call.fn = "extractExif" /\ returned = None
    /\ returned' = Some(extractExif(call.parsed))
    /\ UNCHANGED <<others, bulk, call, config, now, auth, store, staged, request, local, history>>

HelperInit ==
    /\ credsSet = TRUE /\ anthropic = TRUE
    /\ call \in HelperCalls /\ returned = None
    /\ Started

HelperNext ==
    \/ ComputeDimensions
    \/ ComposeDescription
    \/ LookUp
    \/ Extract

HelperSpec == HelperInit /\ [][HelperNext]_vars

----------------------------------------------------------------------------
(* getToken called again and again while the clock runs *)

\* the clock advances by half the lifetime of a token
ClockStep == TOKEN_TTL \div 2

Tick ==
    /\ now < MaxTicks * ClockStep
    /\ now' = now + ClockStep
    /\ UNCHANGED <<others, bulk, helper, config, auth, store, staged, request, local, history>>

\* .meural-password is written or emptied: getToken reads it on every call,
\* before its await, so a change during the await shows at the next call
PasswordFileChange ==
    /\ call.fn = "getToken" /\ call.state # "asking"
    /\ credsSet' = ~credsSet
    /\ UNCHANGED <<others, bulk, helper, anthropic, now, auth, store, staged, request, local, history>>

IdleTokenCall ==
    [fn |-> "getToken", state |-> "idle", at |-> 0, doneAt |-> 0,
     cachedToken |-> None, cachedExpiry |-> None]

\* getToken() up to its return, its throw or its await of client.send
GetTokenCall ==
    /\ call.fn = "getToken" /\ call.state = "idle"
    /\ LET t == getToken("token")
       IN  IF t.asked
           THEN /\ call' = [call EXCEPT !.state = "asking", !.at = now,
                                        !.cachedToken = authToken,
                                        !.cachedExpiry = tokenExpiry]
                /\ returned' = None
           ELSE /\ call' = [call EXCEPT !.state = "done", !.at = now, !.doneAt = now,
                                        !.cachedToken = authToken,
                                        !.cachedExpiry = tokenExpiry]
                /\ returned' = Some([threw |-> t.threw, value |-> t.value,
                                     asked |-> FALSE])
    /\ UNCHANGED <<others, bulk, config, now, auth, store, staged, request, local, history>>

\* the identity provider answers, and getToken runs to its end
GetTokenReply(provider) ==
    /\ call.fn = "getToken" /\ call.state = "asking"
    /\ LET t == getToken(provider)
       IN  /\ authToken' = t.authToken
           /\ tokenExpiry' = t.tokenExpiry
           /\ returned' = Some([threw |-> t.threw, value |-> t.value, asked |-> TRUE])
    /\ call' = [call EXCEPT !.state = "done", !.doneAt = now]
    /\ UNCHANGED <<others, bulk, config, now, store, staged, request, local, history>>

\* the caller goes on; a later request calls getToken again
GetTokenAgain ==
    /\ call.fn = "getToken" /\ call.state = "done"
    /\ call' = IdleTokenCall
    /\ returned' = None
    /\ UNCHANGED <<others, bulk, config, now, auth, store, staged, request, local, history>>

TokenInit ==
    /\ credsSet \in BOOLEAN /\ anthropic = TRUE
    /\ call = IdleTokenCall /\ returned = None
    /\ Started

TokenNext ==
    \/ Tick
    \/ PasswordFileChange
    \/ GetTokenCall
    \/ \E provider \in ProviderReplies : GetTokenReply(provider)
    \/ GetTokenAgain

TokenSpec == TokenInit /\ [][TokenNext]_vars

----------------------------------------------------------------------------
(* POST /api/items/bulk-delete and POST /api/items/bulk-analyze *)

\* an item as the vendor returns it
Photo(image) == [name |-> "IMG_0001", image |-> image, image_large |-> None]

\* what the vendor may do with GET, PUT or DELETE /items/:id.  outcome:
\* "network" the fetch rejects, "denied" a 401, "limited" a 429, "ok" a 200;
\* body: the parsed JSON of the answer, None when it is not JSON
ItemReplies ==
    { [outcome |-> "network", body |-> None],
      [outcome |-> "limited", body |-> None],
      [outcome |-> "limited", body |-> Some([data |-> None])],
      [outcome |-> "denied", body |-> Some([data |-> None])],
      [outcome |-> "ok", body |-> Some([data |-> Some(Photo(None))])],
      [outcome |-> "ok",
       body |-> Some([data |-> Some(Photo(Some("https://cdn.meural.com/1.jpg")))])] }

\* the ids a bulk request may name: 2 has a row in the table, 1 has none
ItemIds == {1, 2}
IdLists == UNION {[1..n -> ItemIds] : n \in 0..MaxIds}

\* meuralRequest(method, path, body): what it returns or throws and the
\* cache it leaves.  sent: the fetch was made.  The status of the answer is
\* not looked at: whatever JSON the vendor sent is returned.
meuralRequest(provider, reply) ==
    LET t == getToken(provider)
    IN  IF t.threw
        THEN [threw |-> TRUE, sent |-> FALSE, message |-> t.message,
              authToken |-> t.authToken, tokenExpiry |-> t.tokenExpiry]
        ELSE IF reply.outcome = "network"
        THEN [threw |-> TRUE, sent |-> TRUE, message |-> "fetch failed",
              authToken |-> t.authToken, tokenExpiry |-> t.tokenExpiry]
        ELSE IF reply.body = None
        THEN [threw |-> TRUE, sent |-> TRUE,
              message |-> "Unexpected token < in JSON at position 0",
              authToken |-> t.authToken, tokenExpiry |-> t.tokenExpiry]
        ELSE [threw |-> FALSE, sent |-> TRUE, value |-> The(reply.body),
              authToken |-> t.authToken, tokenExpiry |-> t.tokenExpiry]

\* the id of the current iteration
CurrentId == The(The(bulkBody).ids)[bulkAt]

\* a remote call, or the delay, of the current iteration
Event(kind, outcome) == [at |-> bulkAt, kind |-> kind, outcome |-> outcome]

\* the entry pushed by a catch block, and for 'Not found' and 'No image URL'
FailedItem(id, message) == [id |-> id, success |-> FALSE, error |-> Some(message)]

\* the entry of bulk-delete's try block
DeletedItem(id) == [id |-> id, success |-> TRUE]

\* the entry of bulk-analyze's try block
AnalyzedItem(id, caption, desc, applied) ==
    [id |-> id, success |-> TRUE, vision_caption |-> caption,
     smart_description |-> desc, applied |-> applied]

\* the first step of an iteration
FirstStep == IF The(bulkBody).route = "bulk-delete" THEN "delete" ELSE "get"

\* the end of an iteration with the results it leaves: the next id, or
\* res.json({ results })
NextId(newResults) ==
    /\ bulkResults' = newResults
    /\ bulkLocal' = NoBulkLocals
    /\ bulkAt' = bulkAt + 1
    /\ IF bulkAt + 1 > Len(The(The(bulkBody).ids))
       THEN bulkPc' = "done" /\ bulkStatus' = Some([code |-> 200])
       ELSE bulkPc' = FirstStep /\ bulkStatus' = bulkStatus

\* a bulk request arrives: const { ids, apply = false } = req.body, and the
\* head of the loop.  ids is None when the body has none.
BulkRequest(route, ids, apply) ==
    /\ bulkPc = "idle"
    /\ bulkBody' = Some([route |-> route, ids |-> ids, apply |-> apply])
    /\ bulkResults' = <<>>
    /\ IF ids = None
       THEN /\ bulkPc' = "done" /\ bulkAt' = 0
            /\ bulkStatus' = Some([code |-> 500, error |-> "ids is not iterable"])
       ELSE IF The(ids) = <<>>
       THEN /\ bulkPc' = "done" /\ bulkAt' = 1
            /\ bulkStatus' = Some([code |-> 200])
       ELSE /\ bulkPc' = IF route = "bulk-delete" THEN "delete" ELSE "get"
            /\ bulkAt' = 1
            /\ bulkStatus' = bulkStatus
    /\ UNCHANGED <<bulkLocal, wire>>
    /\ UNCHANGED <<others, helper, config, now, auth, store, staged, request, local, history>>

\* bulk-delete: await meuralRequest('DELETE', `/items/${id}`) and the push
DeleteItem(provider, reply) ==
    /\ bulkPc = "delete"
    /\ LET r == meuralRequest(provider, reply)
       IN  /\ authToken' = r.authToken
           /\ tokenExpiry' = r.tokenExpiry
           /\ wire' = IF r.sent THEN Append(wire, Event("DELETE", reply.outcome))
                      ELSE wire
           /\ NextId(Append(bulkResults,
                            IF r.threw THEN FailedItem(CurrentId, r.message)
                            ELSE DeletedItem(CurrentId)))
    /\ UNCHANGED bulkBody
    /\ UNCHANGED <<others, helper, config, now, store, staged, request, local, history>>

\* bulk-analyze: await meuralRequest('GET', `/items/${id}`) and the code up
\* to the download
AnalyzeGet(provider, reply) ==
    /\ bulkPc = "get"
    /\ LET r == meuralRequest(provider, reply)
       IN  /\ authToken' = r.authToken
           /\ tokenExpiry' = r.tokenExpiry
           /\ wire' = IF r.sent THEN Append(wire, Event("GET", reply.outcome)) ELSE wire
           /\ IF r.threw
              THEN NextId(Append(bulkResults, FailedItem(CurrentId, r.message)))
              ELSE IF r.value.data = None
              THEN NextId(Append(bulkResults, FailedItem(CurrentId, "Not found")))
              ELSE IF /\ OrNullStr(The(r.value.data).image) = None
                      /\ OrNullStr(The(r.value.data).image_large) = None
              THEN NextId(Append(bulkResults, FailedItem(CurrentId, "No image URL")))
              ELSE /\ bulkLocal' = [NoBulkLocals EXCEPT !.photo = r.value.data]
                   /\ bulkPc' = "download"
                   /\ UNCHANGED <<bulkAt, bulkResults, bulkStatus>>
    /\ UNCHANGED bulkBody
    /\ UNCHANGED <<others, helper, config, now, store, staged, request, local, history>>

\* await fetch(imageUrl) and imageResponse.arrayBuffer()
AnalyzeDownload(ok) ==
    /\ bulkPc = "download"
    /\ wire' = Append(wire, Event("download", IF ok THEN "ok" ELSE "network"))
    /\ IF ok
       THEN /\ bulkPc' = "vision"
            /\ UNCHANGED <<bulkAt, bulkResults, bulkStatus, bulkLocal>>
       ELSE NextId(Append(bulkResults, FailedItem(CurrentId, "fetch failed")))
    /\ UNCHANGED bulkBody
    /\ UNCHANGED <<others, helper, config, now, auth, store, staged, request, local, history>>

\* await generateSmartDescription(exifRecord || {}, location, visionCaption)
\* and the code after it: the PUT is awaited, or the entry is pushed and the
\* delay awaited
Described(caption, exifRecord, location) ==
    LET desc == generateSmartDescription(
                    IF exifRecord = None THEN <<>> ELSE The(exifRecord),
                    location, caption)
        locals == [bulkLocal EXCEPT !.visionCaption = caption,
                                    !.exifRecord = exifRecord,
                                    !.location = location,
                                    !.smartDescription = desc]
    IN  /\ bulkLocal' = locals
        /\ IF The(bulkBody).apply /\ OrNullStr(desc) # None
           THEN /\ bulkPc' = "put"
                /\ UNCHANGED <<bulkAt, bulkResults, bulkStatus>>
           ELSE /\ bulkResults' = Append(bulkResults,
                                         AnalyzedItem(CurrentId, caption, desc, FALSE))
                /\ bulkPc' = "delay"
                /\ UNCHANGED <<bulkAt, bulkStatus>>

\* await analyzeImageWithVision(imageBuffer, 'image/jpeg'), the SELECT of
\* the id's row, and the code up to the next await
AnalyzeVision(reply) ==
    /\ bulkPc = "vision"
    /\ wire' = IF anthropic
               THEN Append(wire, Event("vision", IF reply = None THEN "network" ELSE "ok"))
               ELSE wire
    /\ LET exifRecord == IF CurrentId \in DOMAIN photos THEN Some(photos[CurrentId])
                         ELSE None
       IN  IF exifRecord # None /\ HasGps(The(exifRecord))
           THEN /\ bulkLocal' = [bulkLocal EXCEPT
                                    !.visionCaption = analyzeImageWithVision(reply),
                                    !.exifRecord = exifRecord]
                /\ bulkPc' = "geocode"
                /\ UNCHANGED <<bulkAt, bulkResults, bulkStatus>>
           ELSE Described(analyzeImageWithVision(reply), exifRecord, None)
    /\ UNCHANGED bulkBody
    /\ UNCHANGED <<others, helper, config, now, auth, store, staged, request, local, history>>

\* location = await reverseGeocode(...), and the code up to the next await
AnalyzeGeocode(reply) ==
    /\ bulkPc = "geocode"
    /\ wire' = Append(wire, Event("geocode", IF reply = None THEN "network" ELSE "ok"))
    /\ Described(bulkLocal.visionCaption, bulkLocal.exifRecord, reverseGeocode(reply))
    /\ UNCHANGED bulkBody
    /\ UNCHANGED <<others, helper, config, now, auth, store, staged, request, local, history>>

\* await meuralRequest('PUT', `/items/${id}`, ...) and the push
AnalyzeApply(provider, reply) ==
    /\ bulkPc = "put"
    /\ LET r == meuralRequest(provider, reply)
       IN  /\ authToken' = r.authToken
           /\ tokenExpiry' = r.tokenExpiry
           /\ wire' = IF r.sent THEN Append(wire, Event("PUT", reply.outcome)) ELSE wire
           /\ IF r.threw
              THEN NextId(Append(bulkResults, FailedItem(CurrentId, r.message)))
              ELSE /\ bulkResults' =
                        Append(bulkResults,
                               AnalyzedItem(CurrentId, bulkLocal.visionCaption,
                                            bulkLocal.smartDescription, TRUE))
                   /\ bulkPc' = "delay"
                   /\ UNCHANGED <<bulkAt, bulkStatus, bulkLocal>>
    /\ UNCHANGED bulkBody
    /\ UNCHANGED <<others, helper, config, now, store, staged, request, local, history>>

\* await new Promise(r => setTimeout(r, 500)) at the end of the try block
AnalyzeDelay ==
    /\ bulkPc = "delay"
    /\ wire' = Append(wire, Event("delay", "ok"))
    /\ NextId(bulkResults)
    /\ UNCHANGED bulkBody
    /\ UNCHANGED <<others, helper, config, now, auth, store, staged, request, local, history>>

BulkInit ==
    /\ credsSet \in BOOLEAN
    /\ anthropic \in BOOLEAN
    /\ call = NoCall /\ returned = None
    /\ Started

BulkNext ==
    \/ \E ids \in {None} \cup {Some(l) : l \in IdLists} :
           BulkRequest("bulk-delete", ids, FALSE)
    \/ \E ids \in {None} \cup {Some(l) : l \in IdLists}, apply \in BOOLEAN :
           BulkRequest("bulk-analyze", ids, apply)
    \/ \E provider \in ProviderReplies, reply \in ItemReplies : DeleteItem(provider, reply)
    \/ \E provider \in ProviderReplies, reply \in ItemReplies : AnalyzeGet(provider, reply)
    \/ \E ok \in BOOLEAN : AnalyzeDownload(ok)
    \/ \E reply \in VisionReplies : AnalyzeVision(reply)
    \/ \E reply \in GeoReplies : AnalyzeGeocode(reply)
    \/ \E provider \in ProviderReplies, reply \in ItemReplies : AnalyzeApply(provider, reply)
    \/ AnalyzeDelay

BulkSpec == BulkInit /\ [][BulkNext]_vars

----------------------------------------------------------------------------
(* Two upload requests on the one event loop.  A handler runs from one     *)
(* await to the next without interruption; while it waits for the network, *)
(* the loop runs whatever else is ready: the handler of a request that has *)
(* just arrived, or the continuation of another request whose answer came. *)

\* the handler waits for a fetch to answer: the POST of the file, the
\* lookup of the place, the vision call, the PUT of the description
AwaitsNetwork ==
    \/ pc \in {"upload", "geocode", "apply"}
    \/ pc = "vision" /\ anthropic

\* the closure of the running handler: req.files (multer names the staging
\* files of each request apart), the variables of the handler and of its
\* current iteration, and the history of the request
Closure ==
    [ pc |-> pc, nfiles |-> nfiles, i |-> i, token |-> token, results |-> results,
      status |-> status, local |-> local, staged |-> staged,
      reads |-> reads, posts |-> posts, cur |-> cur ]

\* the running handler becomes the one of the closure c
Run(c) ==
    /\ pc' = c.pc /\ nfiles' = c.nfiles /\ i' = c.i /\ token' = c.token
    /\ results' = c.results /\ status' = c.status /\ local' = c.local
    /\ staged' = c.staged
    /\ reads' = c.reads /\ posts' = c.posts /\ cur' = c.cur

\* a second request arrives while the handler of the first waits for the
\* network: multer stages its files and its handler is called
UploadRequestMeanwhile(n) ==
    /\ AwaitsNetwork
    /\ suspended = None
    /\ suspended' = Some(Closure)
    /\ Run([ pc |-> "start", nfiles |-> n, i |-> 0, token |-> None, results |-> <<>>,
             status |-> None, local |-> NoLocals, staged |-> 1..n,
             reads |-> {}, posts |-> {}, cur |-> NoHistory ])
    /\ UNCHANGED <<bulk, helper, config, now, auth, store, issued, faults>>

\* the answer the suspended handler waits for comes while the running one
\* waits in its turn, or has answered: the suspended handler goes on
Resume ==
    /\ suspended # None
    /\ The(suspended).pc # "done"
    /\ AwaitsNetwork \/ pc = "done"
    /\ suspended' = Some(Closure)
    /\ Run(The(suspended))
    /\ UNCHANGED <<bulk, helper, config, now, auth, store, issued, faults>>

\* what the vendor answers to the POST when nothing fails
PostAccepted == {r \in PostReplies : r.ok /\ r.body.json /\ r.body.id # None}

ConcurrentInit ==
    /\ credsSet = TRUE
    /\ anthropic \in BOOLEAN
    /\ call = NoCall /\ returned = None
    /\ Started

ConcurrentNext ==
    \/ \E n \in 1..MaxFiles : UploadRequest(n)
    \/ \E n \in 1..MaxFiles : UploadRequestMeanwhile(n)
    \/ Resume
    \/ HandlerStart("token")
    \/ \E photo \in {GpsPhoto, BigPhoto} : ReadFile(photo, TRUE, TRUE)
    \/ ResizeAndPost
    \/ \E reply \in PostAccepted : UploadReply(reply, TRUE)
    \/ Geocode(Some(ParisReply))
    \/ \E reply \in VisionReplies : Vision(reply)
    \/ Compose(TRUE, TRUE)
    \/ ApplyDescription("token", "ok", TRUE, TRUE)

ConcurrentSpec == ConcurrentInit /\ [][ConcurrentNext]_vars

----------------------------------------------------------------------------
(* An upload request while the clock runs *)

\* GET /api/user before the upload: meuralRequest('GET', '/user') calls
\* getToken, which leaves its token in the cache
GetUser(provider) ==
    /\ pc = "idle"
    /\ authToken = None
    /\ LET t == getToken(provider)
       IN  /\ authToken' = t.authToken
           /\ tokenExpiry' = t.tokenExpiry
    /\ UNCHANGED <<others, bulk, helper, config, now, store, staged, request, local, history>>

\* time passes while the server is idle or a handler waits at an await; the
\* code between two awaits runs in no time
TimePasses ==
    /\ pc # "read"
    /\ Tick

ClockInit ==
    /\ credsSet = TRUE
    /\ anthropic = TRUE
    /\ call = NoCall /\ returned = None
    /\ Started

ClockNext ==
    \/ TimePasses
    \/ GetUser("token")
    \/ \E n \in 1..MaxFiles : UploadRequest(n)
    \/ HandlerStart("token")
    \/ \E photo \in {GpsPhoto, BigPhoto} : ReadFile(photo, TRUE, TRUE)
    \/ ResizeAndPost
    \/ \E reply \in PostAccepted : UploadReply(reply, TRUE)
    \/ Geocode(Some(ParisReply))
    \/ Vision(Some("Golden light on rooftops"))
    \/ Compose(TRUE, TRUE)
    \/ \E provider \in ProviderReplies, net \in {"ok", "throw"} :
           ApplyDescription(provider, net, TRUE, TRUE)

ClockSpec == ClockInit /\ [][ClockNext]_vars

----------------------------------------------------------------------------
(* Properties of the upload pipeline *)

\* the handler has answered
Done == pc = "done"

\* the handler is past the last step of the file cur tells about
Finished == cur.file >= 1 /\ i > cur.file

\* the entry pushed by the try block of the file cur tells about, if any
\* was pushed, is the first one after cur.base
FirstEntry == results[cur.base + 1]

\* C1: when the handler answers with the result list, the list has one
\* entry per input file and entry k describes file k.
C1_OneEntryPerFileInOrder ==
    (Done /\ status = Some(200)) =>
        /\ Len(results) = nfiles
        /\ \A k \in 1..nfiles : results[k].filename = k

\* C2: a step never changes or drops an entry already in the result list, a
\* handler that entered the loop answers 200 with the list, and by then
\* every file was read, was POSTed to the vendor unless its own read failed,
\* and has an entry of its own.
C2_Step ==
    /\ Len(results') >= Len(results)
    /\ \A k \in 1..Len(results) : results'[k] = results[k]
    /\ (pc' = "done" /\ i' >= 1) =>
          /\ status' = Some(200)
          /\ reads' = 1..nfiles
          /\ \A k \in 1..nfiles :
                /\ \E j \in 1..Len(results') : results'[j].filename = k
                /\ \/ k \in posts'
                   \/ \E j \in 1..Len(results') :
                         /\ results'[j].filename = k
                         /\ results'[j].error = Some("EACCES: permission denied, open")

C2_FailureIsolated == [][C2_Step]_vars

\* a later file succeeded after an earlier one failed
C2_Witness ==
    /\ Done /\ Len(results) = 2
    /\ results[1].filename = 1 /\ ~results[1].success
    /\ results[2].filename = 2 /\ results[2].success
    /\ results[2].meural_id # None

\* C3: once the handler has answered, no staging file of the request is
\* left on disk.
C3_StagingReleased == Done => staged = {}

\* C4: a file whose metadata extraction failed and whose upload succeeded
\* with a remote id gets, unless the database write itself fails, a success
\* entry with that id and null metadata fields, and a row with null
\* metadata columns.
C4_ExtractionFailureDegrades ==
    (Finished /\ cur.degraded /\ cur.uploaded # None /\ ~cur.storeFault) =>
        /\ Len(results) > cur.base
        /\ FirstEntry.filename = cur.file
        /\ FirstEntry.success
        /\ FirstEntry.meural_id = cur.uploaded
        /\ FirstEntry.error = None
        /\ The(FirstEntry.exif).date_taken = None
        /\ The(FirstEntry.exif).camera = None
        /\ The(FirstEntry.exif).lens = None
        /\ The(FirstEntry.exif).aperture = None
        /\ The(FirstEntry.exif).shutter = None
        /\ The(FirstEntry.exif).iso = None
        /\ The(FirstEntry.exif).gps = FALSE
        /\ The(FirstEntry.exif).location = None
        /\ The(FirstEntry.exif).season = None
        /\ The(cur.uploaded) \in DOMAIN photos
        /\ photos[The(cur.uploaded)].original_filename = Some(cur.file)
        /\ \A c \in ExifColumns \cup {"location_name"} :
              photos[The(cur.uploaded)][c] = None

C4_Witness ==
    /\ Finished /\ cur.degraded /\ cur.uploaded # None /\ ~cur.storeFault
    /\ FirstEntry.success

\* C5: every row of the table is keyed by an id the vendor issued in an ok
\* answer, and a row written by this run belongs to a file whose upload
\* succeeded with that id.
C5_RowsOnlyForUploadedItems ==
    \A id \in DOMAIN photos :
        /\ id \in issued
        /\ photos[id].meural_id = Some(id)
        /\ photos[id] # EarlierRow =>
              \E k \in 1..Len(results) :
                  /\ results[k].success
                  /\ results[k].meural_id = Some(id)
                  /\ Some(results[k].filename) = photos[id].original_filename

\* a row was written for one file and none for a file whose upload failed
C5_Witness ==
    /\ Done /\ Len(results) = 2
    /\ ~results[1].success
    /\ results[2].success /\ results[2].meural_id = Some(1)
    /\ 1 \in DOMAIN photos /\ photos[1].original_filename = Some(2)

\* C6: a write for an id that has a row leaves one row for the id, every
\* column of which is the value the new record binds (NULL where the record
\* has none) or the column's default, and leaves the rows of other ids as
\* they were.
C6_Step ==
    (photos' # photos) =>
        LET id == The(The(local.data).id)
            ex == The(local.exifData)
        IN  /\ DOMAIN photos' = DOMAIN photos \cup {id}
            /\ \A k \in DOMAIN photos \ {id} : photos'[k] = photos[k]
            /\ photos'[id].meural_id = Some(id)
            /\ photos'[id].original_filename = Some(The(local.file).originalname)
            /\ photos'[id].id = Some(rowSeq + 1)
            /\ photos'[id].uploaded_at = Some(now)
            /\ photos'[id].location_name = None
            /\ \A c \in ExifColumns :
                  photos'[id][c] = IF c \in DOMAIN ex THEN Bind(c, ex[c]) ELSE None

C6_ReplacedWholesale == [][C6_Step]_vars

\* the row of the earlier run, which had a capture date, was replaced by the
\* row of a file without metadata, beside the row of another id
C6_Witness ==
    /\ EarlierRow.date_taken # None
    /\ DOMAIN photos = {1, 2}
    /\ photos[2].id = Some(3)
    /\ photos[2].date_taken = None
    /\ photos[2].camera_model = None

\* C7: after a successful upload of a file with GPS coordinates for which
\* the Geocoder returned a place, the row written for the remote id carries
\* the place's display name.
C7_PlaceNamePersisted ==
    (Finished /\ cur.uploaded # None /\ cur.place # None /\ ~cur.storeFault) =>
        /\ The(cur.uploaded) \in DOMAIN photos
        /\ photos[The(cur.uploaded)].location_name = cur.place

\* C8: every entry is a success with a remote id that has a row, or a
\* failure with an error.
C8_OutcomeWellFormed ==
    \A k \in 1..Len(results) :
        IF results[k].success
        THEN /\ results[k].meural_id # None
             /\ The(results[k].meural_id) \in DOMAIN photos
        ELSE results[k].error # None

\* C9: a PUT of the description is sent only with a non-empty description,
\* and a file whose PUT failed still gets, unless the database write itself
\* fails, its row and a success entry with its remote id.
C9_DescriptionPushBestEffort ==
    /\ cur.put # "none" => (cur.desc # None /\ cur.desc # Some(""))
    /\ (Finished /\ cur.put = "failed" /\ ~cur.storeFault) =>
          /\ Len(results) > cur.base
          /\ FirstEntry.filename = cur.file
          /\ FirstEntry.success
          /\ FirstEntry.meural_id = cur.uploaded
          /\ FirstEntry.meural_id # None
          /\ FirstEntry.smart_description = cur.desc
          /\ The(cur.uploaded) \in DOMAIN photos
          /\ photos[The(cur.uploaded)].original_filename = Some(cur.file)

C9_Witness ==
    /\ Finished /\ cur.put = "failed" /\ ~cur.storeFault
    /\ FirstEntry.success

\* C10: resizeIfNeeded returns the bytes it was given, not resized, when
\* they are at most 20 MiB, and also, with an error, when they are more and
\* sharp fails; the bytes POSTed to the vendor are then the original ones.
C10_OriginalBytesKept ==
    (pc = "upload") =>
        LET orig == The(cur.original)
            rr == The(local.resizeResult)
        IN  /\ orig.length <= 20 * 1024 * 1024 =>
                  /\ rr.buffer = orig /\ rr.resized = FALSE
                  /\ "error" \notin DOMAIN rr
            /\ (orig.length > 20 * 1024 * 1024 /\ PhotoOf(orig).sharp = None) =>
                  /\ rr.buffer = orig /\ rr.resized = FALSE
                  /\ "error" \in DOMAIN rr
            /\ (orig.length <= 20 * 1024 * 1024 \/ PhotoOf(orig).sharp = None) =>
                  /\ The(local.form).image = orig
                  /\ The(local.form).type = The(local.file).mimetype
                  /\ i \in posts

\* an oversized file that sharp cannot read has been POSTed
C10_Witness ==
    /\ pc = "upload"
    /\ The(cur.original).length > 20 * 1024 * 1024
    /\ PhotoOf(The(cur.original)).sharp = None
    /\ "error" \in DOMAIN The(local.resizeResult)
    /\ i \in posts

----------------------------------------------------------------------------
(* Properties of the helpers *)

Max(a, b) == IF a >= b THEN a ELSE b
Min(a, b) == IF a <= b THEN a ELSE b

\* C11: the dimensions computed for an oversized image of w x h pixels have
\* a longer edge of min(max(w, h), 3000), exceed neither w nor h, have both
\* edges >= 1, and keep the ratio w:h up to the rounding of the shorter edge.
C11_DimensionsFit ==
    (call.fn = "resizeIfNeeded" /\ returned # None) =>
        LET w == call.width
            h == call.height
            d == The(returned)
        IN  /\ Max(d.width, d.height) = Min(Max(w, h), 3000)
            /\ d.width <= w /\ d.height <= h
            /\ d.width >= 1 /\ d.height >= 1
            /\ 2 * Abs(d.height * w - h * d.width) <= Max(w, h)

\* the composer has returned
Composed == call.fn = "generateSmartDescription" /\ returned # None

\* the inputs of the composer that are present
CityGiven == call.location # None /\ OrNullStr(The(call.location).city) # None
CaptionGiven == OrNullStr(call.visionCaption) # None
StampGiven ==
    /\ Get(call.exifData, "date_taken") # None
    /\ The(Get(call.exifData, "date_taken")) # <<>>

\* the month (0-11) of the capture timestamp, None when it has none
CaptureMonth ==
    LET d == ParseDate(The(call.exifData.date_taken))
    IN  IF d = None THEN None ELSE Some(The(d).month)

SeasonOfMonth(m) ==
    IF m \in 2..4 THEN "Spring" ELSE IF m \in 5..7 THEN "Summer"
    ELSE IF m \in 8..10 THEN "Fall" ELSE "Winter"

SeasonNames == {"Spring", "Summer", "Fall", "Winter"}

\* C12: the description is the city if given, then a season name if a
\* capture timestamp is given (the season of its month when it has one),
\* then the caption if given, joined by " · "; it is null exactly when none of
\* the three is given.
C12_PartsInOrder ==
    Composed =>
        /\ \E season \in SeasonNames :
              /\ (StampGiven /\ CaptureMonth # None) =>
                     season = SeasonOfMonth(The(CaptureMonth))
              /\ The(returned) =
                     OrNullStr(Some(Join(
                         (IF CityGiven THEN <<The(The(call.location).city)>> ELSE <<>>)
                         \o (IF StampGiven THEN <<season>> ELSE <<>>)
                         \o (IF CaptionGiven THEN <<The(call.visionCaption)>> ELSE <<>>),
                         " · ")))
        /\ (The(returned) = None) <=> (~CityGiven /\ ~StampGiven /\ ~CaptionGiven)

\* all three parts were given, the timestamp in July
C12_Witness ==
    /\ Composed /\ CityGiven /\ CaptionGiven
    /\ StampGiven /\ CaptureMonth = Some(6)
    /\ The(returned) = Some("Paris · Summer · Golden light on rooftops")

\* C13 as stated: with a capture timestamp and neither city nor caption the
\* description is the "Month Year" of the timestamp.
C13_MonthYearFallback ==
    (Composed /\ ~CityGiven /\ ~CaptionGiven /\ StampGiven) =>
        The(returned) = Some(MonthYear(The(call.exifData.date_taken)))

\* C13 amended: whenever a capture timestamp is given the description is
\* not its "Month Year"; with neither city nor caption it is a season name.
C13_FallbackNeverTaken ==
    (Composed /\ StampGiven) =>
        /\ The(returned) # Some(MonthYear(The(call.exifData.date_taken)))
        /\ (~CityGiven /\ ~CaptionGiven) =>
              (The(returned) # None /\ The(The(returned)) \in SeasonNames)

\* a timestamp of January alone gave "Winter"
C13_Witness ==
    /\ Composed /\ ~CityGiven /\ ~CaptionGiven
    /\ StampGiven /\ CaptureMonth = Some(0)
    /\ MonthYear(The(call.exifData.date_taken)) = "January 2023"
    /\ The(returned) = Some("Winter")

\* a component of the address of the answer, None when it has none
Component(k) ==
    IF call.reply = None \/ The(call.reply).address = None THEN None
    ELSE OrNullStr(Get(The(The(call.reply).address), k))

\* the answer is a lookup result: it has an address with a component
WellFormed ==
    \E k \in {"city", "town", "village", "state", "country", "country_code"} :
        Component(k) # None

\* C17: the Geocoder returns null when the lookup fails or the answer has
\* no address components, and else a descriptor whose city is the city,
\* else the town, else the village of the answer.
C17_NullOnLookupFailure ==
    (call.fn = "reverseGeocode" /\ returned # None) =>
        /\ ~WellFormed => The(returned) = None
        /\ WellFormed =>
              /\ The(returned) # None
              /\ The(The(returned)).city =
                    IF Component("city") # None THEN Component("city")
                    ELSE IF Component("town") # None THEN Component("town")
                    ELSE Component("village")

\* extractExif has returned the record of an image whose tags were read
Extracted == call.fn = "extractExif" /\ returned # None /\ call.parsed # None

\* the rational tags and the fields computed from them
RationalFields ==
    { <<"FNumber", "aperture">>, <<"FocalLength", "focal_length">>,
      <<"ExposureBiasValue", "exposure_compensation">> }

Infinite(q) == q[2] = 0 /\ q[1] # 0

\* C18: aperture, focal length and exposure compensation are null when the
\* tag is absent or its denominator is zero or missing; a value that is
\* stored is the quotient of the tag's pair, and is never Infinity or NaN.
C18_RationalsGuarded ==
    Extracted =>
        \A tf \in RationalFields :
            LET v == The(call.parsed)[tf[1]]
                out == The(returned)[tf[2]]
            IN  /\ (v = None \/ Len(The(v)) < 2 \/ The(v)[2] = 0) => out = None
                /\ out # None =>
                       /\ v # None /\ Len(The(v)) = 2
                       /\ out = Some(Div(The(v)[1], The(v)[2]))
                /\ out # None => (~Infinite(The(out)) /\ ~IsNaN(The(out)))

\* C19: an exposure compensation of 0 is stored as 0; when latitude and
\* longitude are both in the image they are stored as they are, zero
\* included, with the altitude as it is, zero included; latitude and
\* longitude are stored together or not at all.
C19_ZeroIsAValue ==
    Extracted =>
        LET tags == The(call.parsed)
            out == The(returned)
        IN  /\ (/\ tags.ExposureBiasValue # None
                 /\ Len(The(tags.ExposureBiasValue)) = 2
                 /\ The(tags.ExposureBiasValue)[2] # 0) =>
                    out.exposure_compensation # None
            /\ (tags.Latitude # None /\ tags.Longitude # None) =>
                    /\ out.gps_latitude = tags.Latitude
                    /\ out.gps_longitude = tags.Longitude
                    /\ out.gps_altitude = tags.Altitude
            /\ (out.gps_latitude = None) <=> (out.gps_longitude = None)

----------------------------------------------------------------------------
(* Properties of the auth token *)

\* a call of getToken has ended
TokenCallDone == call.fn = "getToken" /\ call.state = "done"

\* when the call was made a token was cached and the time was before its
\* expiry
HadFreshToken == call.cachedToken # None /\ call.at < The(call.cachedExpiry)

CacheAsBefore == authToken = call.cachedToken /\ tokenExpiry = call.cachedExpiry

\* C14: a call with a cached token before its expiry returns that token and
\* contacts nobody; any other call contacts the provider or raises; a fetch
\* that succeeds caches the new token with an expiry one hour later; a call
\* that raises leaves the cache as it was.
C14_LazyRefresh ==
    TokenCallDone =>
        LET r == The(returned)
        IN  /\ r.asked => ~HadFreshToken
            /\ HadFreshToken =>
                  /\ ~r.asked /\ ~r.threw
                  /\ r.value = call.cachedToken
                  /\ CacheAsBefore
            /\ ~HadFreshToken => (r.asked \/ r.threw)
            /\ (r.asked /\ ~r.threw) =>
                  /\ r.value # None
                  /\ authToken = r.value
                  /\ tokenExpiry = Some(call.doneAt + 3600000)
            /\ r.threw => CacheAsBefore

\* a token was fetched anew at the very instant the cached one expired
C14_Witness ==
    /\ TokenCallDone
    /\ call.cachedToken # None /\ call.at = The(call.cachedExpiry)
    /\ The(returned).asked /\ ~The(returned).threw
    /\ authToken # call.cachedToken

----------------------------------------------------------------------------
(* Properties of the bulk operations *)

BulkDone == bulkPc = "done"

\* the request named at least one id, so the handler made for a remote call
NamedIds == The(bulkBody).ids # None /\ The(The(bulkBody).ids) # <<>>

\* C15: with the credentials missing, a bulk request that comes to its
\* first remote call is answered with status 500 and the message about the
\* credentials.
C15_MissingCredentialsFatal ==
    (BulkDone /\ ~credsSet /\ NamedIds) =>
        /\ The(bulkStatus).code = 500
        /\ Get(The(bulkStatus), "error") =
              "MEURAL_USERNAME and MEURAL_PASSWORD must be set in .env"

\* the calls to the vendor API, and the ways they fail
VendorCalls == {"GET", "PUT", "DELETE"}
FailedOutcomes == {"network", "denied", "limited"}

\* C16: a bulk request over a list of ids is answered 200 with one entry
\* per id, and an id one of whose vendor calls failed (network error, 401,
\* 429) has a failure entry with an error.
C16_VendorFailureReported ==
    (BulkDone /\ The(bulkBody).ids # None) =>
        /\ The(bulkStatus).code = 200
        /\ Len(bulkResults) = Len(The(The(bulkBody).ids))
        /\ \A p \in 1..Len(wire) :
              (wire[p].kind \in VendorCalls /\ wire[p].outcome \in FailedOutcomes) =>
                  /\ ~bulkResults[wire[p].at].success
                  /\ Get(bulkResults[wire[p].at], "error") # None

\* C20: in bulk-analyze a remote call for an id and a remote call for a
\* later id have the delay between them.
C20_DelayBetweenIds ==
    \A p, q \in 1..Len(wire) :
        (/\ The(bulkBody).route = "bulk-analyze"
         /\ p < q
         /\ wire[p].kind # "delay" /\ wire[q].kind # "delay"
         /\ wire[p].at < wire[q].at) =>
            \E r \in (p + 1)..(q - 1) : wire[r].kind = "delay"

----------------------------------------------------------------------------
(* Properties of concurrent upload requests *)

\* a file of the handler at p is being processed: it was read and its
\* outcome is not appended yet
FileInProgress(p) == p \in {"resize", "upload", "geocode", "vision", "compose", "apply"}

\* the running handler takes up a file, or goes on with the one it has,
\* which includes the write of its row
FileStep == reads' # reads \/ (pc' # pc /\ FileInProgress(pc))

\* the running handler is the same before and after the step
SameHandler == suspended' = suspended

C21_Step ==
    /\ (SameHandler /\ reads' # reads) =>
           /\ local = NoLocals
           /\ i = 1 \/ i - 1 \in reads
           /\ Len(results) >= i - 1
    /\ (SameHandler /\ suspended # None /\ FileInProgress(The(suspended).pc)) =>
           /\ ~FileStep
           /\ photos' = photos

\* C21: at most one file is being processed at any moment.  Within a batch
\* a file is taken up only when the one before it is finished, its outcome
\* appended; and while a file of one request is in progress, the handler
\* of another request takes no step on a file and writes no row.
C21_OneFileAtATime == [][C21_Step]_vars

----------------------------------------------------------------------------
(* Properties of the tokens the upload handler sends *)

\* a token is named by the time it was issued at: it is within its
\* lifetime at a time before its issue time plus TOKEN_TTL
WithinTTL(tok, time) == tok # None /\ time < The(tok) + TOKEN_TTL

\* the step sends POST /items for the file of the iteration
SendsPost == pc = "resize" /\ pc' = "upload"

\* the step sends PUT /items/:id with the description
SendsPut == pc = "apply" /\ cur'.put = "sent"

C22_Step ==
    /\ SendsPost => WithinTTL(The(local'.form).token, now)
    /\ SendsPut => WithinTTL(authToken', now)

\* C22: every request the upload handler sends to the vendor API, the POST
\* of each file and the PUT of each description, carries a token that is
\* within its one-hour lifetime when the request is sent.
C22_TokenWithinTTL == [][C22_Step]_vars

====
